---- MODULE Spec2Model ----
(***************************************************************************)
(* Sentinel1Preprocessor (src/post_fire_analytics/preprocess.py) as a      *)
(* state machine.  A caller holds a SAFE archive, loads one polarization   *)
(* band from it and passes the labeled grid (an xarray DataArray: a 2-D    *)
(* sample array, the y and x coordinate vectors and the attrs mapping)     *)
(* through calibrate, to_db, apply_speckle_filter, crop_to_bounds and      *)
(* clip_to_geojson in any order.                                           *)
(*                                                                         *)
(* Sample arrays live in numbered buffers (heap): a grid names its buffer  *)
(* and the window of it that it shows, so that a grid that is a view of    *)
(* another grid's array shares the buffer with it.                         *)
(***************************************************************************)
EXTENDS Integers, Sequences, FiniteSets, TLC

(***************************************************************************)
(* Bounds of the model.                                                    *)
(***************************************************************************)
\* rows and columns of the largest raster in an archive
MaxDim == 3
\* stage calls made on one loaded band
MaxCalls == 2
\* largest numerator or denominator of a sample the model tracks exactly
Lim == 30000

(***************************************************************************)
(* Sample values.  A sample is an exact decimal-scaled rational            *)
(*     <<"q", n, d, e>>  =  (n / d) * 10^e,   d > 0, gcd(n, d) = 1,        *)
(*                          neither n nor d divisible by 10,               *)
(* a not-a-number <<"nan", 0, 0, 0>>, an infinity <<"inf", s, 0, 0>>       *)
(* (s the sign), or <<"real", 0, 0, 0>>: a float whose value the model     *)
(* does not track (an irrational logarithm, or a rational whose numerator  *)
(* or denominator exceeds Lim).  Floating-point rounding is not modelled.  *)
(***************************************************************************)
NaN == <<"nan", 0, 0, 0>>
Untracked == <<"real", 0, 0, 0>>
Inf(s) == <<"inf", s, 0, 0>>
Zero == <<"q", 0, 1, 0>>

Abs(n) == IF n < 0 THEN -n ELSE n
Sign(n) == IF n < 0 THEN -1 ELSE IF n = 0 THEN 0 ELSE 1
Min2(a, b) == IF a < b THEN a ELSE b

RECURSIVE GCD(_, _)
GCD(a, b) == IF b = 0 THEN a ELSE GCD(b, a % b)

RECURSIVE Pow10(_)
Pow10(k) == IF k <= 0 THEN 1 ELSE 10 * Pow10(k - 1)

\* the number of factors of ten in n (n # 0)
RECURSIVE Tens(_)
Tens(n) == IF n % 10 = 0 THEN 1 + Tens(n \div 10) ELSE 0

\* the sample n / d * 10^e in normal form (d # 0)
QNorm(n, d, e) ==
    IF n = 0 THEN Zero
    ELSE LET g == GCD(Abs(n), Abs(d))
             n1 == (Sign(d) * n) \div g
             d1 == Abs(d) \div g
             tn == Tens(n1)
             td == Tens(d1)
             n2 == n1 \div Pow10(tn)
             d2 == d1 \div Pow10(td)
         IN  IF Abs(n2) > Lim \/ d2 > Lim THEN Untracked
             ELSE <<"q", n2, d2, e + tn - td>>

FromInt(n) == QNorm(n, 1, 0)
IsQ(v) == v[1] = "q"
IsNaN(v) == v[1] = "nan"

QNeg(a) == IF IsQ(a) THEN <<"q", -a[2], a[3], a[4]>>
           ELSE IF a[1] = "inf" THEN Inf(-a[2]) ELSE a

QMul(a, b) ==
    IF IsNaN(a) \/ IsNaN(b) THEN NaN
    ELSE IF ~IsQ(a) \/ ~IsQ(b) THEN Untracked
    ELSE QNorm(a[2] * b[2], a[3] * b[3], a[4] + b[4])

\* IEEE division: 0/0 is not-a-number, x/0 an infinity
QDiv(a, b) ==
    IF IsNaN(a) \/ IsNaN(b) THEN NaN
    ELSE IF ~IsQ(a) \/ ~IsQ(b) THEN Untracked
    ELSE IF b[2] = 0 THEN (IF a[2] = 0 THEN NaN ELSE Inf(Sign(a[2])))
    ELSE QNorm(a[2] * b[3], a[3] * b[2], a[4] - b[4])

QAdd(a, b) ==
    IF IsNaN(a) \/ IsNaN(b) THEN NaN
    ELSE IF ~IsQ(a) \/ ~IsQ(b) THEN Untracked
    ELSE IF a[2] = 0 THEN b
    ELSE IF b[2] = 0 THEN a
    ELSE LET m == Min2(a[4], b[4])
             ka == a[4] - m
             kb == b[4] - m
         IN  IF ka > 4 \/ kb > 4 THEN Untracked
             ELSE LET an == a[2] * Pow10(ka)
                      bn == b[2] * Pow10(kb)
                  IN  IF Abs(an) > Lim \/ Abs(bn) > Lim THEN Untracked
                      ELSE QNorm(an * b[3] + bn * a[3], a[3] * b[3], m)

QSub(a, b) == QAdd(a, QNeg(b))

\* a > 0 as numpy compares: false for not-a-number
QPositive(a) == (IsQ(a) /\ a[2] > 0) \/ (a[1] = "inf" /\ a[2] > 0)


(***************************************************************************)
(* calibrate and to_db, per sample.                                        *)
(***************************************************************************)
\* the scale constant of calibrate
CalScale == 1000000
\* the floor to_db puts in place of a non-positive sample: 1e-10
DbFloor == <<"q", 1, 1, -10>>

\* (x.astype("float32") ** 2) / 1e6
CalValue(v) == QDiv(QMul(v, v), FromInt(CalScale))

\* 10 * log10(w) for w > 0: exact when w is a power of ten
TenLog10(w) ==
    IF w[1] = "inf" THEN Inf(1)
    ELSE IF IsQ(w) /\ w[2] = 1 /\ w[3] = 1 THEN FromInt(10 * w[4])
    ELSE Untracked

\* 10 * np.log10(x.where(x > 0, 1e-10))
DbValue(v) ==
    IF v = Untracked THEN Untracked
    ELSE TenLog10(IF QPositive(v) THEN v ELSE DbFloor)

\* the elementwise array operations
CalSamples(m) == [i \in DOMAIN m |-> [j \in DOMAIN m[i] |-> CalValue(m[i][j])]]
DbSamples(m) == [i \in DOMAIN m |-> [j \in DOMAIN m[i] |-> DbValue(m[i][j])]]

(***************************************************************************)
(* The speckle filters, on a sample array m of h rows and w columns.       *)
(* scipy.ndimage's filters extend the array past its border by reflection  *)
(* (mode "reflect": d c b a | a b c d | d c b a) and centre a window of    *)
(* size s on offsets -(s \div 2) .. s - (s \div 2) - 1.                     *)
(***************************************************************************)
\* the index in 1..n that position p (any integer) reflects to
Reflect(p, n) ==
    LET q == (p - 1) % (2 * n)
    IN  IF q < n THEN q + 1 ELSE 2 * n - q


RECURSIVE QSum(_)
QSum(vs) == IF vs = <<>> THEN Zero ELSE QAdd(Head(vs), QSum(Tail(vs)))

\* the order of two samples: -1, 0, 1, or 2 when the model cannot tell
QCompare(a, b) ==
    LET diff == QSub(a, b)
    IN  IF IsQ(a) /\ IsQ(b) /\ IsQ(diff) THEN Sign(diff[2]) ELSE 2

\* integer samples: the integer a C cast of v >= 0 gives, and uint16 wrap-around
Trunc(v) ==
    IF ~IsQ(v) THEN v
    ELSE IF v[4] >= 0 THEN FromInt((v[2] * Pow10(v[4])) \div v[3])
    ELSE IF v[4] < -4 THEN Zero
    ELSE FromInt(v[2] \div (v[3] * Pow10(0 - v[4])))
IntOf(v) == v[2] * Pow10(v[4])
Wrap16(v) == IF ~IsQ(v) THEN v ELSE FromInt(IntOf(v) % 65536)
IsIntType(dtype) == dtype = "uint16"

\* the window of m around (i, j), row by row
Window(m, h, w, i, j, size) ==
    LET offs == [k \in 1..size |-> k - 1 - (size \div 2)]
    IN  [k \in 1..(size * size) |->
            m[Reflect(i + offs[((k - 1) \div size) + 1], h)]
             [Reflect(j + offs[((k - 1) % size) + 1], w)]]

\* ndimage.median_filter: the sample of rank (size*size) \div 2 of the window
MedianOf(win) ==
    LET n == Len(win)
        rank == n \div 2
        known == \A a, b \in 1..n : QCompare(win[a], win[b]) # 2
        below(k) == Cardinality({a \in 1..n : QCompare(win[a], win[k]) = -1})
        upto(k) == Cardinality({a \in 1..n : QCompare(win[a], win[k]) <= 0})
    IN  IF ~known THEN Untracked
        ELSE win[CHOOSE k \in 1..n : below(k) <= rank /\ rank < upto(k)]

MedianFilter(m, h, w, size) ==
    [i \in 1..h |-> [j \in 1..w |-> MedianOf(Window(m, h, w, i, j, size))]]

\* ndimage.uniform_filter1d along one axis; an integer array keeps integers
Uniform1(m, h, w, size, axis, dtype) ==
    LET offs == [k \in 1..size |-> k - 1 - (size \div 2)]
        line(i, j) == [k \in 1..size |->
                         IF axis = 0 THEN m[Reflect(i + offs[k], h)][j]
                         ELSE m[i][Reflect(j + offs[k], w)]]
        avg(i, j) == QDiv(QSum(line(i, j)), FromInt(size))
    IN  [i \in 1..h |-> [j \in 1..w |->
            IF IsIntType(dtype) THEN Trunc(avg(i, j)) ELSE avg(i, j)]]

\* ndimage.uniform_filter: one pass per axis, each pass writing the output array
UniformFilter(m, h, w, size, dtype) ==
    Uniform1(Uniform1(m, h, w, size, 0, dtype), h, w, size, 1, dtype)

\* the arithmetic of an array of dtype: uint16 wraps around
Arith(v, dtype) == IF IsIntType(dtype) THEN Wrap16(v) ELSE v

\* the speckle coefficient of _lee_filter: 4.4
LeeLooks == <<"q", 44, 1, -1>>

LeeFilter(img, h, w, window_size, dtype) ==
    LET sq == [i \in 1..h |-> [j \in 1..w |-> Arith(QMul(img[i][j], img[i][j]), dtype)]]
        mean == UniformFilter(img, h, w, window_size, dtype)
        sqr_mean == UniformFilter(sq, h, w, window_size, dtype)
        pixel(i, j) ==
            LET mn == mean[i][j]
                mn2 == Arith(QMul(mn, mn), dtype)
                variance == Arith(QSub(sqr_mean[i][j], mn2), dtype)
                noise_variance == QDiv(mn2, LeeLooks)
                k == QDiv(variance, QAdd(variance, noise_variance))
            IN  QAdd(mn, QMul(k, Arith(QSub(img[i][j], mn), dtype)))
    IN  [i \in 1..h |-> [j \in 1..w |-> pixel(i, j)]]

RefinedLeeFilter(img, h, w, window_size, dtype) == LeeFilter(img, h, w, window_size, dtype)

(***************************************************************************)
(* The SAFE archive: a sequence of entries, in the order zf.namelist()     *)
(* gives them.  An entry name is a sequence of string pieces; a substring  *)
(* test of the code is a test for a piece, str.lower() lowers each piece.  *)
(***************************************************************************)
Polarizations == {"VV", "VH", "HH", "HV"}

LowerPiece(t) ==
    CASE t = "-VV-" -> "-vv-"
      [] t = "-VH-" -> "-vh-"
      [] t = "S1A.SAFE/" -> "s1a.safe/"
      [] OTHER -> t

Lower(name) == [i \in DOMAIN name |-> LowerPiece(name[i])]

\* f"-{polarization.lower()}-"
PolToken(pol) ==
    CASE pol = "VV" -> "-vv-"
      [] pol = "VH" -> "-vh-"
      [] pol = "HH" -> "-hh-"
      [] pol = "HV" -> "-hv-"

Contains(name, piece) == \E i \in DOMAIN name : name[i] = piece
EndsWith(name, piece) == Len(name) > 0 /\ name[Len(name)] = piece

\* the digital numbers of the rasters
DNValues == <<0, 1, 10>>
DN(seed, i, j) == DNValues[((seed + 2 * i + j) % 3) + 1]

Raster(h, w, seed, transform, crs, nodata) ==
    [data |-> [i \in 1..h |-> [j \in 1..w |-> DN(seed, i, j)]], dtype |-> "uint16",
     transform |-> transform, crs |-> crs, nodata |-> nodata]

\* nodata of a raster: None, or a number
None == <<>>

\* north-up, georeferenced
RasterVV == Raster(MaxDim, MaxDim, 0, <<1, 0, 0, 0, -1, MaxDim>>, "EPSG:32610", <<0>>)
\* as rasterio reads a raster without georeferencing: the identity transform
RasterVH == Raster(MaxDim, MaxDim, 1, <<1, 0, 0, 0, 1, 0>>, "None", None)
RasterHH == Raster(MaxDim, MaxDim - 1, 2, <<2, 0, 10, 0, -2, 20>>, "EPSG:4326", None)
RasterOne == Raster(1, 1, 1, <<1, 0, 5, 0, -1, 5>>, "EPSG:4326", <<0>>)

EntryVV == [name |-> <<"S1A.SAFE/", "measurement/", "s1a-iw-grd", "-vv-", "001", ".tiff">>,
            raster |-> RasterVV]
EntryVH == [name |-> <<"S1A.SAFE/", "measurement/", "s1a-iw-grd", "-vh-", "002", ".tiff">>,
            raster |-> RasterVH]
EntryHH == [name |-> <<"S1A.SAFE/", "measurement/", "s1a-iw-grd", "-hh-", "001", ".tiff">>,
            raster |-> RasterHH]
\* upper-case name pieces: the code compares name.lower()
EntryVHUpper == [name |-> <<"S1A.SAFE/", "measurement/", "S1A-IW-GRD", "-VH-", "002", ".tiff">>,
                 raster |-> RasterVH]
\* a second VV raster, stored first, whose name sorts after EntryVV's
EntryVVLate == [name |-> <<"S1A.SAFE/", "measurement/", "s1a-iw-grd", "-vv-", "009", ".tiff">>,
                raster |-> RasterOne]
\* entries the filter of load_band drops
EntryAnnotation == [name |-> <<"S1A.SAFE/", "annotation/", "s1a-iw-grd", "-vv-", "001", ".xml">>,
                    raster |-> RasterOne]
EntryPreview == [name |-> <<"S1A.SAFE/", "preview/", "quick-look", "-hh-", ".tiff">>,
                 raster |-> RasterOne]
EntryManifest == [name |-> <<"S1A.SAFE/", "measurement/", "s1a-iw-grd", "-hv-", "002", ".xml">>,
                  raster |-> RasterOne]

Archives ==
    { <<EntryAnnotation, EntryVV, EntryVH>>,
      <<EntryVVLate, EntryVV, EntryVHUpper, EntryPreview>>,
      <<EntryManifest, EntryHH, EntryPreview>> }

(***************************************************************************)
(* Grids.  A grid shows rows r0+1 .. r0+h and columns c0+1 .. c0+w of the  *)
(* buffer heap[buf]; y and x are its coordinate vectors and attrs its      *)
(* metadata mapping (a function whose domain is the keys present); dtype   *)
(* is the array's element type.                                            *)
(***************************************************************************)
Buffers == {1, 2}
OtherBuffer(b) == IF b = 1 THEN 2 ELSE 1
NoAttrs == [k \in {} |-> 0]
NoGrid == [buf |-> 1, r0 |-> 0, c0 |-> 0, h |-> 0, w |-> 0, dtype |-> "",
           y |-> <<>>, x |-> <<>>, attrs |-> NoAttrs]

Has(attrs, k) == k \in DOMAIN attrs
\* attrs[k] = v
Put(attrs, k, v) == (k :> v) @@ attrs
\* attrs.update(other)
Update(attrs, other) == other @@ attrs

VARIABLES
    archive,   \* the entries of the SAFE zip file
    heap,      \* buffer -> sample array (<<>>: no array)
    cur,       \* the grid the caller holds: the latest one returned
    inp,       \* the grid the caller passed to the latest stage call
    inpWas,    \* what inp showed when that call was made
    last,      \* the latest call: its name, arguments, and whether it raised
    hist,      \* the stages that returned a grid of the loaded band, in order
    calls,     \* how many stage calls were made on the loaded band
    written,   \* whether the caller wrote into the returned grid's samples
    disk       \* the directories and the raster files save has made

vars == <<archive, heap, cur, inp, inpWas, last, hist, calls, written, disk>>

\* the samples a grid shows
Samples(g) == [i \in 1..g.h |-> [j \in 1..g.w |-> heap[g.buf][g.r0 + i][g.c0 + j]]]
\* what a grid shows, by value
Shown(g) == [samples |-> Samples(g), h |-> g.h, w |-> g.w, dtype |-> g.dtype,
             y |-> g.y, x |-> g.x, attrs |-> g.attrs]

\* path -> file, for the files that exist
NoFiles == <<>>
NoDisk == [dirs |-> {}, files |-> NoFiles]

NoCall == [op |-> "none", raised |-> FALSE, pol |-> "", mode |-> "", kind |-> "",
           ws |-> 0, bounds |-> <<0, 0, 0, 0>>, path |-> ""]
Call(op, raised) == [NoCall EXCEPT !.op = op, !.raised = raised]

Init ==
    /\ archive \in Archives
    /\ heap = [b \in Buffers |-> <<>>]
    /\ cur = NoGrid
    /\ inp = NoGrid
    /\ inpWas = Shown(NoGrid)
    /\ last = NoCall
    /\ hist = <<>>
    /\ calls = 0
    /\ written = FALSE
    /\ disk = NoDisk

(***************************************************************************)
(* load_band                                                               *)
(***************************************************************************)
Matches(name, pol) ==
    /\ Contains(name, "measurement/")
    /\ Contains(Lower(name), PolToken(pol))
    /\ EndsWith(name, ".tiff")

\* load_band's filter without the test for the raster suffix
MeasurementFilesAnySuffix(arch, pol) ==
    SelectSeq(arch, LAMBDA en : /\ Contains(en.name, "measurement/")
                                /\ Contains(Lower(en.name), PolToken(pol)))

MeasurementFiles(arch, pol) == SelectSeq(arch, LAMBDA en : Matches(en.name, pol))

\* np.arange(n) * step + origin
Coords(n, step, origin) == [i \in 1..n |-> (i - 1) * step + origin]

\* the data and the grid load_band builds from a raster
LoadedData(rs) == [i \in DOMAIN rs.data |-> [j \in DOMAIN rs.data[i] |-> FromInt(rs.data[i][j])]]
LoadedGrid(rs, pol) ==
    LET height == Len(rs.data)
        width == IF height = 0 THEN 0 ELSE Len(rs.data[1])
    IN  [buf |-> 1, r0 |-> 0, c0 |-> 0, h |-> height, w |-> width, dtype |-> rs.dtype,
         y |-> Coords(height, rs.transform[5], rs.transform[6]),
         x |-> Coords(width, rs.transform[1], rs.transform[3]),
         attrs |-> [k \in {"polarization", "crs", "transform", "nodata"} |->
                      CASE k = "polarization" -> pol
                        [] k = "crs" -> rs.crs
                        [] k = "transform" -> rs.transform
                        [] k = "nodata" -> rs.nodata]]

\* the caller loads a band, then calls stages on it, then saves the grid
LoadBand(pol) ==
    LET files == MeasurementFiles(archive, pol) IN
    /\ calls = 0 /\ last.op # "save"
    /\ IF files = <<>>
       THEN \* raise ValueError
            /\ last' = [Call("load_band", TRUE) EXCEPT !.pol = pol]
            /\ UNCHANGED <<heap, cur, inp, inpWas, hist, calls, written>>
       ELSE LET rs == files[1].raster IN
            /\ heap' = [b \in Buffers |-> IF b = 1 THEN LoadedData(rs) ELSE <<>>]
            /\ cur' = LoadedGrid(rs, pol)
            /\ inp' = NoGrid
            /\ inpWas' = Shown(NoGrid)
            /\ last' = [Call("load_band", FALSE) EXCEPT !.pol = pol]
            /\ hist' = <<>>
            /\ calls' = 0
            /\ written' = FALSE
    /\ UNCHANGED <<archive, disk>>

(***************************************************************************)
(* The stages.  Each takes what its argument shows (Shown) and gives what  *)
(* the grid it returns shows; crop_to_bounds, whose result is a view,      *)
(* takes and gives the grid itself.                                        *)
(***************************************************************************)
CalibrationModes == {"sigma0", "gamma0", "beta0"}
FilterTypes == {"lee", "refined_lee", "median"}
\* the arguments the caller may pass: the documented ones and one that is not
ModeArgs == {"sigma0", "gamma0", "delta0"}
FilterArgs == { <<"lee", 5>>, <<"refined_lee", 3>>, <<"median", 3>>, <<"frost", 5>> }
Stages == {"calibrate", "to_db", "apply_speckle_filter", "crop_to_bounds", "clip_to_geojson"}

\* calibrate with a scale factor of its own for gamma0
CalibrateScalesByMode(data, calibration) ==
    [data EXCEPT
        !.samples = [i \in DOMAIN data.samples |-> [j \in DOMAIN data.samples[i] |->
                        IF calibration = "gamma0"
                        THEN QMul(CalValue(data.samples[i][j]), FromInt(2))
                        ELSE CalValue(data.samples[i][j])]],
        !.dtype = "float32",
        !.attrs = Put(Put(Update(NoAttrs, data.attrs), "calibration", calibration),
                      "units", "linear")]

Calibrate(data, calibration) ==
    [data EXCEPT
        !.samples = CalSamples(data.samples),
        !.dtype = "float32",
        !.attrs = Put(Put(Update(NoAttrs, data.attrs), "calibration", calibration),
                      "units", "linear")]

\* to_db without the line that sets attrs["units"]
ToDbKeepsUnits(data) ==
    [data EXCEPT
        !.samples = DbSamples(data.samples),
        !.dtype = IF data.dtype = "float32" THEN "float32" ELSE "float64",
        !.attrs = Update(NoAttrs, data.attrs)]

ToDb(data) ==
    [data EXCEPT
        !.samples = DbSamples(data.samples),
        !.dtype = IF data.dtype = "float32" THEN "float32" ELSE "float64",
        !.attrs = Put(Update(NoAttrs, data.attrs), "units", "dB")]

\* whether apply_speckle_filter raises ValueError
FilterRaises(filter_type) == filter_type \notin {"median", "lee", "refined_lee"}

Filtered(data, filter_type, window_size) ==
    CASE filter_type = "median" ->
            MedianFilter(data.samples, data.h, data.w, window_size)
      [] filter_type = "lee" ->
            LeeFilter(data.samples, data.h, data.w, window_size, data.dtype)
      [] filter_type = "refined_lee" ->
            RefinedLeeFilter(data.samples, data.h, data.w, window_size, data.dtype)

\* apply_speckle_filter building its result without the input's attrs
ApplySpeckleFilterFreshAttrs(data, filter_type, window_size) ==
    [data EXCEPT
        !.samples = Filtered(data, filter_type, window_size),
        !.dtype = IF filter_type # "median" /\ IsIntType(data.dtype)
                  THEN "float64" ELSE data.dtype,
        !.attrs = Put(Put(NoAttrs, "speckle_filter", filter_type),
                      "filter_window", window_size)]

ApplySpeckleFilter(data, filter_type, window_size) ==
    [data EXCEPT
        !.samples = Filtered(data, filter_type, window_size),
        !.dtype = IF filter_type # "median" /\ IsIntType(data.dtype)
                  THEN "float64" ELSE data.dtype,
        !.attrs = Put(Put(data.attrs, "speckle_filter", filter_type),
                      "filter_window", window_size)]

\* The positions a label slice(start, stop) selects from a coordinate index,
\* as <<first, count>>: pandas takes an index that is not decreasing (one of
\* length 0 or 1 too) as increasing and keeps start <= label <= stop, and a
\* decreasing one as decreasing and keeps start >= label >= stop.
SliceLocs(coords, start, stop) ==
    LET n == Len(coords)
        increasing == n < 2 \/ coords[1] < coords[2]
        kept == {i \in 1..n : IF increasing
                              THEN start <= coords[i] /\ coords[i] <= stop
                              ELSE stop <= coords[i] /\ coords[i] <= start}
    IN  IF kept = {} THEN <<1, 0>>
        ELSE <<CHOOSE i \in kept : \A k \in kept : i <= k, Cardinality(kept)>>

\* crop_to_bounds selecting the samples and leaving the row coordinates as they were
CropToBoundsStaleRows(g, bounds) ==
    LET cols == SliceLocs(g.x, bounds[1], bounds[3])
        rows == SliceLocs(g.y, bounds[4], bounds[2])
    IN  [g EXCEPT
            !.r0 = g.r0 + rows[1] - 1,
            !.c0 = g.c0 + cols[1] - 1,
            !.h = rows[2],
            !.w = cols[2],
            !.x = SubSeq(g.x, cols[1], cols[1] + cols[2] - 1)]

\* data.sel(x=slice(minx, maxx), y=slice(maxy, miny)): a view of data's array
CropToBounds(g, bounds) ==
    LET minx == bounds[1]
        miny == bounds[2]
        maxx == bounds[3]
        maxy == bounds[4]
        cols == SliceLocs(g.x, minx, maxx)
        rows == SliceLocs(g.y, maxy, miny)
    IN  [g EXCEPT
            !.r0 = g.r0 + rows[1] - 1,
            !.c0 = g.c0 + cols[1] - 1,
            !.h = rows[2],
            !.w = cols[2],
            !.y = SubSeq(g.y, rows[1], rows[1] + rows[2] - 1),
            !.x = SubSeq(g.x, cols[1], cols[1] + cols[2] - 1)]

\* The boundary files: path -> the bounding boxes <<minx, miny, maxx, maxy>>
\* of the geometries in it.
GeoJsonPaths == {"fire.geojson", "region.geojson"}
Geometries(path) ==
    IF path = "fire.geojson" THEN {<<1, 1, 2, 2>>, <<0, 2, 1, 3>>}
    ELSE {<<-120, 38, -119, 39>>}

SetMin(S) == CHOOSE a \in S : \A b \in S : a <= b
SetMax(S) == CHOOSE a \in S : \A b \in S : a >= b
\* gdf.total_bounds
TotalBounds(path) ==
    LET boxes == Geometries(path)
    IN  <<SetMin({b[1] : b \in boxes}), SetMin({b[2] : b \in boxes}),
          SetMax({b[3] : b \in boxes}), SetMax({b[4] : b \in boxes})>>

\* the value is the text str(bounds.tolist()) of the four numbers
ClipToGeojson(data, geojson_path) ==
    [data EXCEPT
        !.attrs = Put(Update(data.attrs, data.attrs), "geojson_bounds",
                      TotalBounds(geojson_path))]

(***************************************************************************)
(* The calls.                                                              *)
(***************************************************************************)
Loaded == Has(cur.attrs, "polarization")
\* the caller saves the grid it ends with: no other call follows a save
MayCall == Loaded /\ calls < MaxCalls /\ last.op # "save"

\* a stage returns a grid with an array of its own
ReturnNew(out, call) ==
    LET nb == OtherBuffer(cur.buf) IN
    /\ heap' = [heap EXCEPT ![nb] = out.samples]
    /\ cur' = [buf |-> nb, r0 |-> 0, c0 |-> 0, h |-> out.h, w |-> out.w,
               dtype |-> out.dtype, y |-> out.y, x |-> out.x, attrs |-> out.attrs]
    /\ inp' = cur
    /\ inpWas' = Shown(cur)
    /\ last' = call
    /\ hist' = Append(hist, call.op)
    /\ calls' = calls + 1
    /\ written' = FALSE
    /\ UNCHANGED <<archive, disk>>

\* a stage raises: the caller is left with the grid it passed
Raise(call) ==
    /\ inp' = cur
    /\ inpWas' = Shown(cur)
    /\ last' = call
    /\ calls' = calls + 1
    /\ written' = FALSE
    /\ UNCHANGED <<archive, heap, cur, hist, disk>>

CalibrateCall(calibration) ==
    /\ MayCall
    /\ ReturnNew(Calibrate(Shown(cur), calibration),
                 [Call("calibrate", FALSE) EXCEPT !.mode = calibration])

ToDbCall ==
    /\ MayCall
    /\ ReturnNew(ToDb(Shown(cur)), Call("to_db", FALSE))

\* What scipy.ndimage does with an array of no samples is not fixed by this
\* code: the filter may give back the empty array or raise.
ApplySpeckleFilterCall(filter_type, window_size) ==
    LET call(raised) == [Call("apply_speckle_filter", raised) EXCEPT
                            !.kind = filter_type, !.ws = window_size] IN
    /\ MayCall
    /\ IF FilterRaises(filter_type)
       THEN Raise(call(TRUE))
       ELSE IF cur.h = 0 \/ cur.w = 0
       THEN \/ Raise(call(TRUE))
            \/ ReturnNew([Shown(cur) EXCEPT
                             !.attrs = Put(Put(@, "speckle_filter", filter_type),
                                           "filter_window", window_size)],
                         call(FALSE))
       ELSE ReturnNew(ApplySpeckleFilter(Shown(cur), filter_type, window_size),
                      call(FALSE))

\* the bounds the caller crops to
CropBounds ==
    { <<1, 1, 2, 2>>, <<0, 0, MaxDim, MaxDim>>, <<12, 16, 12, 18>> }

CropToBoundsCall(bounds) ==
    /\ MayCall
    /\ cur' = CropToBounds(cur, bounds)
    /\ heap' = [heap EXCEPT ![OtherBuffer(cur.buf)] = <<>>]
    /\ inp' = cur
    /\ inpWas' = Shown(cur)
    /\ last' = [Call("crop_to_bounds", FALSE) EXCEPT !.bounds = bounds]
    /\ hist' = Append(hist, "crop_to_bounds")
    /\ calls' = calls + 1
    /\ written' = FALSE
    /\ UNCHANGED <<archive, disk>>

ClipToGeojsonCall(geojson_path) ==
    /\ MayCall
    /\ ReturnNew(ClipToGeojson(Shown(cur), geojson_path),
                 [Call("clip_to_geojson", FALSE) EXCEPT !.path = geojson_path])

\* The caller writes a sample of the grid a stage returned, in place:
\* result.values[0, 0] = 7
WrittenValue == FromInt(7)
WriteResult ==
    /\ last.op \in Stages /\ ~last.raised
    /\ ~written
    /\ cur.h > 0 /\ cur.w > 0
    /\ heap' = [heap EXCEPT ![cur.buf][cur.r0 + 1][cur.c0 + 1] = WrittenValue]
    /\ written' = TRUE
    /\ UNCHANGED <<archive, cur, inp, inpWas, last, hist, calls, disk>>

(***************************************************************************)
(* save                                                                    *)
(***************************************************************************)
\* CRS.from_string: the structured CRS of an authority code; CRSError for a
\* text that names no CRS, as str(None) = "None" does
CRSError == <<"CRSError">>
FromString(text) ==
    CASE text = "EPSG:32610" -> <<"EPSG", 32610>>
      [] text = "EPSG:4326" -> <<"EPSG", 4326>>
      [] OTHER -> CRSError

\* str() of an int, and of a float with no fraction, character by character
Digits == <<"0", "1", "2", "3", "4", "5", "6", "7", "8", "9">>
RECURSIVE IntText(_)
IntText(n) ==
    IF n < 0 THEN <<"-">> \o IntText(-n)
    ELSE IF n < 10 THEN <<Digits[n + 1]>>
    ELSE Append(IntText(n \div 10), Digits[(n % 10) + 1])
FloatText(n) == IntText(n) \o <<".", "0">>

\* isinstance(value, (str, int, float)) for the value under a key: the
\* transform is an Affine, nodata a float or None, filter_window an int and
\* every other value a str
IsScalar(attrs, key) ==
    /\ key # "transform"
    /\ key = "nodata" => attrs[key] # None
\* str(value)
Str(attrs, key) ==
    CASE key = "filter_window" -> IntText(attrs[key])
      [] key = "nodata" -> FloatText(attrs[key][1])
      [] OTHER -> attrs[key]

\* Path(output_path).parent, with its own parents
OutputPaths == {"out/processed.tif"}
Drivers == {"GTiff"}
Parents(output_path) == IF output_path = "out/processed.tif" THEN {"out"} ELSE {}

\* save with the CRS parsed outside any try/except
SaveSurfacesCrsError(data, output_path, driver, refused) ==
    LET transform == IF Has(data.attrs, "transform") THEN data.attrs["transform"] ELSE None
        text == IF Has(data.attrs, "crs") THEN data.attrs["crs"] ELSE ""
        crs == IF text # "" THEN FromString(text) ELSE None
    IN  [raised |-> refused \/ crs = CRSError,
         dirs |-> Parents(output_path),
         file |-> [driver |-> driver, height |-> data.h, width |-> data.w, count |-> 1,
                   dtype |-> data.dtype, crs |-> crs, transform |-> transform,
                   band |-> data.samples,
                   tags |-> [key \in {k \in DOMAIN data.attrs : IsScalar(data.attrs, k)}
                               |-> Str(data.attrs, key)]]]

\* What save does: whether it raises, the directories it makes and the file
\* it writes.  refused: rasterio.open raises for this dataset.
Save(data, output_path, driver, refused) ==
    LET transform == IF Has(data.attrs, "transform") THEN data.attrs["transform"] ELSE None
        text == IF Has(data.attrs, "crs") THEN data.attrs["crs"] ELSE ""
        crs == IF text # ""
               THEN IF FromString(text) = CRSError THEN None ELSE FromString(text)
               ELSE None
    IN  [raised |-> refused,
         dirs |-> Parents(output_path),
         file |-> [driver |-> driver, height |-> data.h, width |-> data.w, count |-> 1,
                   dtype |-> data.dtype, crs |-> crs, transform |-> transform,
                   band |-> data.samples,
                   tags |-> [key \in {k \in DOMAIN data.attrs : IsScalar(data.attrs, k)}
                               |-> Str(data.attrs, key)]]]

\* What the format library does with a dataset of no rows or no columns is
\* not fixed by this code: rasterio.open may refuse it.
SaveCall(output_path, driver) ==
    /\ Loaded
    /\ \E refused \in (IF cur.h = 0 \/ cur.w = 0 THEN BOOLEAN ELSE {FALSE}) :
          LET out == Save(Shown(cur), output_path, driver, refused) IN
          /\ disk' = [dirs |-> disk.dirs \cup out.dirs,
                      files |-> IF out.raised THEN disk.files
                                ELSE (output_path :> out.file) @@ disk.files]
          /\ last' = [Call("save", out.raised) EXCEPT !.path = output_path]
    /\ inp' = cur
    /\ inpWas' = Shown(cur)
    /\ UNCHANGED <<archive, heap, cur, hist, calls, written>>

Next ==
    \/ \E pol \in Polarizations : LoadBand(pol)
    \/ \E calibration \in ModeArgs : CalibrateCall(calibration)
    \/ ToDbCall
    \/ \E arg \in FilterArgs : ApplySpeckleFilterCall(arg[1], arg[2])
    \/ \E bounds \in CropBounds : CropToBoundsCall(bounds)
    \/ \E geojson_path \in GeoJsonPaths : ClipToGeojsonCall(geojson_path)
    \/ WriteResult
    \/ \E output_path \in OutputPaths, driver \in Drivers : SaveCall(output_path, driver)

Spec == Init /\ [][Next]_vars

(***************************************************************************)
(* Properties.                                                             *)
(***************************************************************************)
\* the latest call was a stage call that returned a grid: inp went in, cur came out
StageReturned == last.op \in Stages /\ ~last.raised
Range(f) == {f[i] : i \in DOMAIN f}

\* the place of attrs["units"] in  unset -> "linear" -> "dB"
UnitsRank(attrs) ==
    IF ~Has(attrs, "units") THEN 0
    ELSE IF attrs["units"] = "linear" THEN 1
    ELSE 2

\* C1, as claimed: over any sequence of stage calls the units of the grid a
\* stage returns are never behind the units of the grid it was given.
C1_UnitsNeverMoveBack ==
    StageReturned => UnitsRank(inp.attrs) <= UnitsRank(cur.attrs)

\* C1, amended: calibrate always leaves units "linear" (also on a grid in dB,
\* the one step backwards), to_db always leaves "dB", the filter, the crop and
\* the clip leave units as in their input; units do not move backwards in any
\* call other than calibrate on a grid in dB.
C1_UnitsPerStage ==
    StageReturned =>
        /\ last.op = "calibrate" =>
              Has(cur.attrs, "units") /\ cur.attrs["units"] = "linear"
        /\ last.op = "to_db" =>
              Has(cur.attrs, "units") /\ cur.attrs["units"] = "dB"
        /\ last.op \in {"apply_speckle_filter", "crop_to_bounds", "clip_to_geojson"} =>
              /\ Has(cur.attrs, "units") <=> Has(inp.attrs, "units")
              /\ Has(inp.attrs, "units") => cur.attrs["units"] = inp.attrs["units"]
        /\ (last.op # "calibrate" \/ UnitsRank(inp.attrs) < 2) =>
              UnitsRank(inp.attrs) <= UnitsRank(cur.attrs)

\* calibrate then to_db: unset -> "linear" -> "dB"
C1_Witness ==
    /\ StageReturned
    /\ hist = <<"calibrate", "to_db">>
    /\ UnitsRank(inp.attrs) = 1
    /\ UnitsRank(cur.attrs) = 2

\* C2, as claimed: the grid clip_to_geojson returns has a shape other than its
\* input's and carries the key "cropped".
C2_ClipCrops ==
    (StageReturned /\ last.op = "clip_to_geojson") =>
        /\ <<cur.h, cur.w>> # <<inp.h, inp.w>>
        /\ Has(cur.attrs, "cropped")

\* C3, as claimed: the grid passed to a stage shows the same samples,
\* coordinates and metadata as when the call was made, also after the caller
\* has written into the grid the stage returned.
C3_InputUntouched ==
    StageReturned => Shown(inp) = inpWas

\* C4, as claimed: the transform in the metadata of a cropped grid maps the
\* grid's indices to its coordinates, x[i] = a*i + c and y[j] = e*j + f, so
\* that c and f are the first retained coordinates.
C4_CropRecomputesOrigin ==
    (StageReturned /\ last.op = "crop_to_bounds") =>
        LET t == cur.attrs["transform"] IN
        /\ \A i \in 1..cur.w : cur.x[i] = t[1] * (i - 1) + t[3]
        /\ \A j \in 1..cur.h : cur.y[j] = t[5] * (j - 1) + t[6]

\* the metadata keys a stage writes
OwnKeys(op) ==
    CASE op = "calibrate" -> {"calibration", "units"}
      [] op = "to_db" -> {"units"}
      [] op = "apply_speckle_filter" -> {"speckle_filter", "filter_window"}
      [] op = "clip_to_geojson" -> {"geojson_bounds"}
      [] OTHER -> {}

\* C5, as claimed: a stage call removes no key and changes the value of no key
\* other than "units".
C5_ProvenanceWriteOnce ==
    StageReturned =>
        \A k \in DOMAIN inp.attrs :
            /\ Has(cur.attrs, k)
            /\ k # "units" => cur.attrs[k] = inp.attrs[k]

\* C5, amended: a stage call removes no key, adds only the keys of its own
\* stage and changes the value only of keys of its own stage; a key other than
\* "units" is found set by the stage that writes it only when that stage was
\* called before on the same band (the repeated call overwrites it).
C5_StagesWriteOwnKeys ==
    StageReturned =>
        /\ \A k \in DOMAIN inp.attrs :
              /\ Has(cur.attrs, k)
              /\ cur.attrs[k] # inp.attrs[k] => k \in OwnKeys(last.op)
              /\ (k \in OwnKeys(last.op) /\ k # "units") =>
                    last.op \in Range(SubSeq(hist, 1, Len(hist) - 1))
        /\ DOMAIN cur.attrs \ DOMAIN inp.attrs \subseteq OwnKeys(last.op)
        /\ OwnKeys(last.op) \subseteq DOMAIN cur.attrs

\* a second calibrate overwrites the calibration the first one recorded
C5_Witness ==
    /\ StageReturned
    /\ hist = <<"calibrate", "calibrate">>
    /\ inp.attrs["calibration"] # cur.attrs["calibration"]
    /\ cur.attrs["polarization"] = inp.attrs["polarization"]

\* C6, as claimed: a call with a filter kind or a calibration mode that is not
\* one of the supported ones raises.
C6_UnsupportedRejected ==
    /\ (last.op = "apply_speckle_filter" /\ last.kind \notin FilterTypes) => last.raised
    /\ (last.op = "calibrate" /\ last.mode \notin CalibrationModes) => last.raised

\* C7: load_band raises when no entry of the archive is under measurement/,
\* holds the lower-case polarization token and ends in .tiff; the caller is
\* then left without a grid of that polarization.
C7_MissingBandRaises ==
    last.op = "load_band" =>
        LET wanted == {i \in DOMAIN archive :
                          /\ Contains(archive[i].name, "measurement/")
                          /\ Contains(Lower(archive[i].name), PolToken(last.pol))
                          /\ EndsWith(archive[i].name, ".tiff")}
        IN  wanted = {} =>
               /\ last.raised
               /\ ~(Loaded /\ cur.attrs["polarization"] = last.pol)

\* HH asked of an archive whose measurements are VV and VH
C7_Witness ==
    /\ last.op = "load_band" /\ last.pol = "HH" /\ last.raised
    /\ \E i \in DOMAIN archive : Contains(archive[i].name, "-vv-")
    /\ \E i \in DOMAIN archive : Contains(archive[i].name, "-vh-")
    /\ \A i \in DOMAIN archive : ~Contains(archive[i].name, "-hh-")

\* C8: the shape of the samples of every grid is (len(y), len(x)) and the
\* samples are there in the grid's array; calibrate, to_db and
\* apply_speckle_filter return the shape and the coordinates of their input.
C8_ShapeMatchesCoords ==
    Loaded =>
        /\ cur.h = Len(cur.y) /\ cur.w = Len(cur.x)
        /\ (cur.h > 0 /\ cur.w > 0) =>
              /\ cur.r0 >= 0 /\ cur.r0 + cur.h <= Len(heap[cur.buf])
              /\ \A i \in 1..cur.h :
                    cur.c0 >= 0 /\ cur.c0 + cur.w <= Len(heap[cur.buf][cur.r0 + i])
        /\ (StageReturned /\ last.op # "crop_to_bounds") =>
              /\ cur.r0 = 0 /\ cur.c0 = 0
              /\ Len(heap[cur.buf]) = cur.h
              /\ \A i \in 1..cur.h : Len(heap[cur.buf][i]) = cur.w
        /\ (StageReturned /\ last.op \in {"calibrate", "to_db", "apply_speckle_filter"}) =>
              /\ cur.h = inp.h /\ cur.w = inp.w
              /\ cur.y = inp.y /\ cur.x = inp.x

\* a crop that made the grid smaller, rows and columns
C8_Witness ==
    /\ StageReturned /\ last.op = "crop_to_bounds"
    /\ 0 < cur.h /\ cur.h < inp.h
    /\ 0 < cur.w /\ cur.w < inp.w
    /\ Len(cur.y) = cur.h /\ Len(cur.x) = cur.w

\* C9, as claimed: crop_to_bounds keeps exactly the columns with
\* minx <= x <= maxx and exactly the rows with miny <= y <= maxy.
C9_CropKeepsExactlyInBounds ==
    (StageReturned /\ last.op = "crop_to_bounds") =>
        LET b == last.bounds IN
        /\ cur.x = SelectSeq(inp.x, LAMBDA c : b[1] <= c /\ c <= b[3])
        /\ cur.y = SelectSeq(inp.y, LAMBDA c : b[2] <= c /\ c <= b[4])

\* C10: the samples calibrate returns are the input's samples squared over
\* 1e6 whatever the mode; any two modes give grids that differ in
\* attrs["calibration"] alone, and the grid returned differs from the input in
\* the samples, attrs["calibration"] = mode and attrs["units"] = "linear" alone.
C10_ModeIsLabelOnly ==
    (StageReturned /\ last.op = "calibrate" /\ ~written) =>
        /\ Samples(cur) =
              [i \in 1..inp.h |-> [j \in 1..inp.w |->
                  QDiv(QMul(inpWas.samples[i][j], inpWas.samples[i][j]),
                       <<"q", 1, 1, 6>>)]]
        /\ cur.h = inp.h /\ cur.w = inp.w /\ cur.y = inp.y /\ cur.x = inp.x
        /\ cur.attrs =
              [k \in DOMAIN inp.attrs \cup {"calibration", "units"} |->
                  IF k = "calibration" THEN last.mode
                  ELSE IF k = "units" THEN "linear"
                  ELSE inp.attrs[k]]
        /\ \A m \in CalibrationModes :
              LET other == Calibrate(inpWas, m) IN
              /\ other.samples = Samples(cur)
              /\ other.attrs["calibration"] = m
              /\ [other EXCEPT !.attrs = Put(@, "calibration", last.mode)] = Shown(cur)

\* gamma0 on a grid with a sample that is not zero
C10_Witness ==
    /\ StageReturned /\ last.op = "calibrate" /\ last.mode = "gamma0" /\ ~written
    /\ \E i \in 1..cur.h, j \in 1..cur.w :
          /\ inpWas.samples[i][j] # Zero
          /\ Samples(cur)[i][j] = CalValue(inpWas.samples[i][j])

\* the weight k of _lee_filter, sample by sample
LeeWeight(img, h, w, window_size, dtype) ==
    LET sq == [i \in 1..h |-> [j \in 1..w |-> Arith(QMul(img[i][j], img[i][j]), dtype)]]
        mean == UniformFilter(img, h, w, window_size, dtype)
        sqr_mean == UniformFilter(sq, h, w, window_size, dtype)
        k(i, j) ==
            LET mn2 == Arith(QMul(mean[i][j], mean[i][j]), dtype)
                variance == Arith(QSub(sqr_mean[i][j], mn2), dtype)
                noise_variance == QDiv(mn2, LeeLooks)
            IN  QDiv(variance, QAdd(variance, noise_variance))
    IN  [i \in 1..h |-> [j \in 1..w |-> k(i, j)]]

\* C11, as claimed: wherever the samples of the Lee filter's window are all
\* equal, to 0 or to any other value, the weight k is 0 and the filtered
\* sample is the mean of the window, which is that common value.
C11_LeeHomogeneousGivesMean ==
    (StageReturned /\ ~written /\ last.op = "apply_speckle_filter"
        /\ last.kind \in {"lee", "refined_lee"})
    => \A i \in 1..inp.h : \A j \in 1..inp.w :
          LET win == Window(inpWas.samples, inp.h, inp.w, i, j, last.ws)
          IN  (IsQ(win[1]) /\ \A a \in DOMAIN win : win[a] = win[1])
              => /\ LeeWeight(inpWas.samples, inp.h, inp.w, last.ws, inp.dtype)[i][j]
                       = Zero
                 /\ Samples(cur)[i][j] = win[1]

\* C12: when save is called on a grid whose CRS text cannot be parsed, the
\* parse failure is not raised: save raises only if the format library
\* refuses the dataset, which it may do only for a grid without samples; and
\* when save returns the file exists at the output path with no CRS, one
\* band holding the grid's samples in the grid's dtype and shape, the grid's
\* transform, and one tag for every str, int or float entry of attrs and for
\* no other entry.
C12_SaveRecoversFromCrs ==
    (last.op = "save" /\ FromString(inp.attrs["crs"]) = CRSError) =>
        /\ last.raised => (inp.h = 0 \/ inp.w = 0)
        /\ ~last.raised =>
              /\ Has(disk.files, last.path)
              /\ LET file == disk.files[last.path] IN
                 /\ file.crs = None
                 /\ file.count = 1
                 /\ file.band = inpWas.samples
                 /\ file.height = inp.h /\ file.width = inp.w
                 /\ file.dtype = inp.dtype
                 /\ file.transform = inp.attrs["transform"]
                 /\ DOMAIN file.tags =
                       {k \in DOMAIN inp.attrs :
                           /\ k # "transform"
                           /\ ~(k = "nodata" /\ inp.attrs[k] = None)}
                 /\ \A k \in DOMAIN file.tags \ {"nodata", "filter_window"} :
                       file.tags[k] = inp.attrs[k]
                 /\ Has(file.tags, "filter_window") =>
                       file.tags["filter_window"] \in {<<"3">>, <<"5">>}

\* a filtered grid with samples and the CRS text "None" was saved
C12_Witness ==
    /\ last.op = "save" /\ ~last.raised
    /\ inp.attrs["crs"] = "None"
    /\ inp.h > 0 /\ inp.w > 0
    /\ Has(disk.files, last.path)
    /\ disk.files[last.path].crs = None
    /\ disk.files[last.path].tags["crs"] = "None"
    /\ Has(disk.files[last.path].tags, "filter_window")

\* C13, as claimed: when several entries of the archive match the
\* polarization, load_band decodes the match whose name is the smallest in
\* lexicographic order, whatever the order the archive stores them in.  The
\* name pieces are ranked as their characters compare ("-" < "." < digits <
\* upper case < lower case); no piece is a prefix of another, so names
\* compare as their first differing pieces do.
C13_FirstLexicalMatch ==
    LET rank(t) ==
            CASE t = "-VH-" -> 1 [] t = "-VV-" -> 2 [] t = "-hh-" -> 3
              [] t = "-hv-" -> 4 [] t = "-vh-" -> 5 [] t = "-vv-" -> 6
              [] t = ".tiff" -> 7 [] t = ".xml" -> 8
              [] t = "001" -> 9 [] t = "002" -> 10 [] t = "009" -> 11
              [] t = "S1A-IW-GRD" -> 12 [] t = "S1A.SAFE/" -> 13
              [] t = "annotation/" -> 14 [] t = "measurement/" -> 15
              [] t = "preview/" -> 16 [] t = "quick-look" -> 17
              [] t = "s1a-iw-grd" -> 18
        before(a, b) ==
            \E i \in 1..Min2(Len(a), Len(b)) :
                /\ \A k \in 1..(i - 1) : a[k] = b[k]
                /\ rank(a[i]) < rank(b[i])
        files == MeasurementFiles(archive, last.pol)
    IN  (last.op = "load_band" /\ ~last.raised /\ Len(files) > 1) =>
            \E n \in 1..Len(files) :
                /\ \A o \in 1..Len(files) :
                      o # n => before(files[n].name, files[o].name)
                /\ cur = LoadedGrid(files[n].raster, last.pol)
                /\ Samples(cur) = LoadedData(files[n].raster)
====
